---- MODULE Spec2Model ----
(***************************************************************************)
(* A model of src/implicitdl/implicit_model.py: the three implicit model   *)
(* classes (ImplicitModel, ImplicitModelLoRA, ImplicitModelLoRA2), their   *)
(* forward methods and the stability projection project_onto_Linf_ball.    *)
(*                                                                         *)
(* Numbers are exact rationals <<num, den>> (den > 0, lowest terms), so    *)
(* every statement below is about the arithmetic of the code over the      *)
(* reals.  Floating-point rounding enters in two places only, both stated  *)
(* where they occur: math.sqrt and the 1e-10 of the scalar-Diag rescale.   *)
(* Matrices are sequences of rows.                                         *)
(***************************************************************************)
EXTENDS Integers, Sequences, FiniteSets, TLC

\* ------------------------------------------------------------------------
\* Bounds of the model
\* ------------------------------------------------------------------------
NHidden == 2        \* n, the number of hidden features
Rank == 1           \* k, the low-rank dimension
PIn == 4            \* p as given to the constructor (before the bias row)
QOut == 1           \* q, the number of outputs
MaxBatch == 2       \* m ranges over 1..MaxBatch
MaxSeq == 2         \* t of a 3-dimensional U ranges over 2..MaxSeq
SqrtScale == 10     \* math.sqrt is computed to a multiple of 1/SqrtScale

NoVal == <<>>

\* ------------------------------------------------------------------------
\* Exact rational arithmetic
\* ------------------------------------------------------------------------
IAbs(x) == IF x < 0 THEN -x ELSE x

RECURSIVE GCD(_, _)
GCD(a, b) == IF b = 0 THEN a ELSE GCD(b, a % b)

Rat(a, b) ==
    LET s == IF b < 0 THEN -1 ELSE 1
        g == GCD(IAbs(a), IAbs(b))
    IN  <<(s * a) \div g, (s * b) \div g>>

RInt(i) == <<i, 1>>
RZero == <<0, 1>>
ROne == <<1, 1>>

RAdd(x, y) ==
    LET g == GCD(x[2], y[2])
        l == (x[2] \div g) * y[2]
    IN  Rat(x[1] * (l \div x[2]) + y[1] * (l \div y[2]), l)

RNeg(x) == <<-x[1], x[2]>>
RMul(x, y) ==
    LET a == Rat(x[1], y[2])
        b == Rat(y[1], x[2])
    IN  Rat(a[1] * b[1], a[2] * b[2])
RDiv(x, y) == RMul(x, Rat(y[2], y[1]))
RAbs(x) == <<IAbs(x[1]), x[2]>>
RLt(x, y) ==
    LET g == GCD(x[2], y[2])
    IN  x[1] * (y[2] \div g) < y[1] * (x[2] \div g)
RLe(x, y) == ~RLt(y, x)
RSign(x) == IF x[1] > 0 THEN 1 ELSE IF x[1] < 0 THEN -1 ELSE 0

RECURSIVE RSum(_)
RSum(s) == IF s = <<>> THEN RZero ELSE RAdd(Head(s), RSum(Tail(s)))

RECURSIVE RMax(_)
RMax(s) ==
    IF Len(s) = 1 THEN s[1]
    ELSE LET r == RMax(Tail(s)) IN IF RLt(s[1], r) THEN r ELSE s[1]

\* ------------------------------------------------------------------------
\* Matrices (torch tensors of two dimensions)
\* ------------------------------------------------------------------------
Rows(M) == Len(M)
Cols(M) == Len(M[1])
Shape(M) == <<Rows(M), Cols(M)>>

MatMul(X, Y) ==
    [i \in 1..Rows(X) |->
        [j \in 1..Cols(Y) |->
            RSum([l \in 1..Cols(X) |-> RMul(X[i][l], Y[l][j])])]]

MatAdd(X, Y) ==
    [i \in 1..Rows(X) |-> [j \in 1..Cols(X) |-> RAdd(X[i][j], Y[i][j])]]

ScalarMul(c, X) ==
    [i \in 1..Rows(X) |-> [j \in 1..Cols(X) |-> RMul(c, X[i][j])]]

ScalarDiv(X, c) ==
    [i \in 1..Rows(X) |-> [j \in 1..Cols(X) |-> RDiv(X[i][j], c)]]

zeros(r, c) == [i \in 1..r |-> [j \in 1..c |-> RZero]]
eye(r, c) == [i \in 1..r |-> [j \in 1..c |-> IF i = j THEN ROne ELSE RZero]]
diag(v) ==
    [i \in 1..Len(v) |-> [j \in 1..Len(v) |-> IF i = j THEN v[i] ELSE RZero]]

\* torch.linalg.matrix_norm(A, ord=inf): the largest absolute row sum
matrix_norm_inf(M) ==
    RMax([i \in 1..Rows(M) |-> RSum([j \in 1..Cols(M) |-> RAbs(M[i][j])])])

\* Tensor.transpose(-1, -2) of a matrix
Tensor_transpose(M) == [j \in 1..Cols(M) |-> [i \in 1..Rows(M) |-> M[i][j]]]

\* utils.transpose (not among the sources): batch-major to feature-major and
\* back, the two dimensions of a matrix exchanged
transpose(M) == Tensor_transpose(M)

\* ------------------------------------------------------------------------
\* The stability projection
\* ------------------------------------------------------------------------
\* Faulty variants of project_onto_Linf_ball, which the properties below
\* must tell from it.
project_always_rescales(A, v) ==
    LET norm_inf_A == matrix_norm_inf(A)
    IN  IF norm_inf_A = RZero THEN A ELSE ScalarDiv(ScalarMul(v, A), norm_inf_A)

project_without_norm(A, v) ==
    LET norm_inf_A == matrix_norm_inf(A)
    IN  IF RLt(v, norm_inf_A) THEN ScalarMul(v, A) ELSE A

project_identity(A, v) == A

\* ImplicitModelLoRA.project_onto_Linf_ball and its copy in ImplicitModelLoRA2
project_onto_Linf_ball(A, v) ==
    LET norm_inf_A == matrix_norm_inf(A)
    IN  IF RLt(v, norm_inf_A)
        THEN ScalarDiv(ScalarMul(v, A), norm_inf_A)
        ELSE A

\* math.sqrt returns a rational (a double) next to the real root.  Here it is
\* the largest multiple of 1/SqrtScale whose square is at most x; the double
\* math.sqrt(0.95 - 0.45) = 0.7071067811865475 has its square below 1/2 too.
ISqrt(x) == CHOOSE r \in 0..x : r * r <= x /\ (r + 1) * (r + 1) > x
sqrt(x) == Rat(ISqrt((x[1] * SqrtScale * SqrtScale) \div x[2]), SqrtScale)

v_LoRA == <<97, 100>>       \* the budget 0.97 of ImplicitModelLoRA.forward
kappa == <<19, 20>>         \* kappa = 0.95
kapp_diag == <<9, 20>>      \* kapp_diag = 0.45

\* A faulty budget of the low-rank factors: the whole of kappa
budget_is_kappa == kappa

\* math.sqrt(kappa-kapp_diag), the budget of each low-rank factor
v_LoRA2 == sqrt(RAdd(kappa, RNeg(kapp_diag)))

\* ------------------------------------------------------------------------
\* Tensors handed to forward: [rank |-> 2 or 3, data |-> nested sequences],
\* batch first.  X0 is NoVal (None) or a matrix.
\* ------------------------------------------------------------------------
RECURSIVE Concat(_)
Concat(ss) == IF ss = <<>> THEN <<>> ELSE Head(ss) \o Concat(Tail(ss))

\* U.flatten(1, -1) of a 3-dimensional U: all but the first dimension merged
flatten(T) == [i \in 1..Len(T) |-> Concat(T[i])]

\* F.pad(U, (0, 0, 0, 1), value=1): one row of ones below the last row
pad(M) == Append(M, [j \in 1..Cols(M) |-> ROne])

AdapterFailed == [ok |-> FALSE, U |-> NoVal, X0 |-> NoVal]

\* A faulty variant of ShapeAdapter: X0's shape asserted before X0 is
\* transposed.
ShapeAdapter_untransposed_X0(U, X0, self_n, self_p0, self_bias0) ==
    LET U1 == IF U.rank = 3 THEN flatten(U.data) ELSE U.data
        U2 == transpose(U1)
        U3 == IF self_bias0 THEN pad(U2) ELSE U2
        m == Cols(U3)
        X_shape == <<self_n, m>>
    IN  IF Rows(U3) # self_p0
        THEN AdapterFailed
        ELSE IF X0 # NoVal
             THEN IF Shape(X0) # X_shape
                  THEN AdapterFailed
                  ELSE [ok |-> TRUE, U |-> U3, X0 |-> X0]
             ELSE [ok |-> TRUE, U |-> U3, X0 |-> zeros(self_n, m)]

\* The first lines of every forward: U flattened, transposed and padded, its
\* width asserted; X0 transposed and its shape asserted, or synthesised.
ShapeAdapter(U, X0, self_n, self_p0, self_bias0) ==
    LET U1 == IF U.rank = 3 THEN flatten(U.data) ELSE U.data
        U2 == transpose(U1)
        U3 == IF self_bias0 THEN pad(U2) ELSE U2
        m == Cols(U3)
        X_shape == <<self_n, m>>
    IN  IF Rows(U3) # self_p0
        THEN AdapterFailed
        ELSE IF X0 # NoVal
             THEN IF Shape(transpose(X0)) # X_shape
                  THEN AdapterFailed
                  ELSE [ok |-> TRUE, U |-> U3, X0 |-> transpose(X0)]
             ELSE [ok |-> TRUE, U |-> U3, X0 |-> zeros(self_n, m)]

\* ------------------------------------------------------------------------
\* The values the model draws parameters and inputs from
\* ------------------------------------------------------------------------
Pats == {"flat", "skew"}

Gen(r, c, a, pat) ==
    [i \in 1..r |-> [j \in 1..c |->
        IF pat = "flat" THEN a
        ELSE RMul(a, RInt((i + j - 1) * (IF (i + j) % 2 = 0 THEN 1 ELSE -1)))]]

Small == <<1, 4>>
Large == <<-3, 1>>
ScalarDiags == {<<1, 5>>, <<19, 20>>, <<2, 1>>, <<-2, 1>>}
WeightMags == {<<1, 2>>, <<-1, 1>>}
SolverMags == {<<1, 1>>, <<-1, 2>>}

FactorVals ==
    {Gen(NHidden, Rank, Small, "flat"), Gen(NHidden, Rank, Small, "skew"),
     Gen(NHidden, Rank, Large, "flat")}
DenseVals ==
    {Gen(NHidden, NHidden, Small, "flat"), Gen(NHidden, NHidden, Small, "skew"),
     Gen(NHidden, NHidden, Large, "flat")}
VectorDiagVals ==
    {Gen(1, NHidden, <<1, 5>>, "flat")[1], Gen(1, NHidden, <<-2, 1>>, "flat")[1],
     Gen(1, NHidden, <<-2, 1>>, "skew")[1]}
ScalarDiagVals == {<< <<a>> >> : a \in ScalarDiags}

\* U of shape (m, w) and of shape (m, t, w); every entry names its own place
Tensor2(m, w) == [rank |-> 2,
                  data |-> [i \in 1..m |-> [j \in 1..w |-> RInt(10 * i + j)]]]
Tensor3(m, t, w) == [rank |-> 3,
                     data |-> [i \in 1..m |-> [s \in 1..t |-> [j \in 1..w |->
                                  RInt(100 * i + 10 * s + j)]]]]

UInputs ==
    {Tensor2(m, w) : m \in 1..MaxBatch, w \in PIn..(PIn + 1)}
    \cup {Tensor3(m, t, w) : m \in 1..MaxBatch, t \in 2..MaxSeq, w \in 1..2}

X0Inputs ==
    {NoVal} \cup {Tensor2(m, w).data : m \in 1..MaxBatch,
                                       w \in NHidden..(NHidden + 1)}

\* ------------------------------------------------------------------------
\* State: one model object and the record of the call in progress
\* ------------------------------------------------------------------------
VARIABLES
    cls,        \* the class of the object
    self_diag,  \* self.diag (ImplicitModelLoRA2 only)
    self_bias,  \* self.bias
    self_p,     \* self.p, the constructor's p plus one when bias is set
    A, L, R, Diag, B, C, D,   \* the parameters; NoVal where the class has none
    call        \* what the running (or last returned) call saw and produced

params == <<A, L, R, Diag, B, C, D>>
config == <<cls, self_diag, self_bias, self_p>>
vars == <<cls, self_diag, self_bias, self_p, A, L, R, Diag, B, C, D, call>>

Classes == {"ImplicitModel", "ImplicitModelLoRA", "ImplicitModelLoRA2"}

Idle == [op |-> "idle", outcome |-> "none", U |-> NoVal, X0 |-> NoVal,
         DiagEntry |-> NoVal, rescaled |-> NoVal,
         Diag_projected |-> NoVal, L_projected |-> NoVal,
         RT_projected |-> NoVal, solve |-> NoVal, X |-> NoVal, Y |-> NoVal,
         projA |-> NoVal, projv |-> NoVal, projOut |-> NoVal,
         projAgain |-> NoVal]

\* __init__ of the three classes: the shapes of the parameters
Init ==
    /\ cls \in Classes
    /\ self_diag \in (IF cls = "ImplicitModelLoRA2" THEN BOOLEAN ELSE {FALSE})
    /\ self_bias \in BOOLEAN
    /\ self_p = PIn + (IF self_bias THEN 1 ELSE 0)
    /\ A \in (IF cls = "ImplicitModel" THEN DenseVals ELSE {NoVal})
    /\ L \in (IF cls = "ImplicitModel" THEN {NoVal} ELSE FactorVals)
    /\ R \in (IF cls = "ImplicitModel" THEN {NoVal} ELSE FactorVals)
    /\ Diag \in (IF cls # "ImplicitModelLoRA2" THEN {NoVal}
                 ELSE IF self_diag THEN VectorDiagVals ELSE ScalarDiagVals)
    /\ \E w \in WeightMags :
        /\ B = Gen(NHidden, self_p, w, "flat")
        /\ C = Gen(QOut, NHidden, w, "skew")
        /\ D = Gen(QOut, self_p, w, "flat")
    /\ call = Idle

\* The external solver ImplicitFunction.apply(A, B, X0, U): some matrix of
\* the shape of X0.
ImplicitFunction_apply(A_eff, B0, X0, U) ==
    {Gen(Rows(X0), Cols(X0), x, "flat") : x \in SolverMags}

\* transpose(self.C @ X + self.D @ U)
Output(X, U) == transpose(MatAdd(MatMul(C, X), MatMul(D, U)))

Started(U, X0) == [Idle EXCEPT !.op = "forward", !.U = U, !.X0 = X0,
                               !.DiagEntry = Diag]

Asserted(U, X0) == [Started(U, X0) EXCEPT !.outcome = "AssertionError"]

\* The call of the solver and the return of forward
Solved(rec, A_eff, sa, X) ==
    [rec EXCEPT !.outcome = "ok",
                !.solve = <<A_eff, B, sa.X0, sa.U>>,
                !.X = X,
                !.Y = Output(X, sa.U)]

\* ImplicitModel.forward
ForwardDense(U, X0) ==
    /\ cls = "ImplicitModel"
    /\ call.op = "idle"
    /\ LET sa == ShapeAdapter(U, X0, NHidden, self_p, self_bias)
       IN  IF ~sa.ok
           THEN call' = Asserted(U, X0)
           ELSE \E X \in ImplicitFunction_apply(A, B, sa.X0, sa.U) :
                    call' = Solved(Started(U, X0), A, sa, X)
    /\ UNCHANGED <<config, params>>

\* A faulty variant of ImplicitModelLoRA.forward: the projected L is written
\* back to self.L.
ForwardLoRA_writes_back(U, X0) ==
    /\ cls = "ImplicitModelLoRA"
    /\ call.op = "idle"
    /\ LET sa == ShapeAdapter(U, X0, NHidden, self_p, self_bias)
       IN  IF ~sa.ok
           THEN call' = Asserted(U, X0) /\ L' = L
           ELSE LET L_projected == project_onto_Linf_ball(L, v_LoRA)
                    RT_projected == project_onto_Linf_ball(Tensor_transpose(R), v_LoRA)
                    rec == [Started(U, X0) EXCEPT
                               !.L_projected = L_projected,
                               !.RT_projected = RT_projected]
                    A_eff == MatMul(L_projected, RT_projected)
                IN  /\ L' = L_projected
                    /\ \E X \in ImplicitFunction_apply(A_eff, B, sa.X0, sa.U) :
                           call' = Solved(rec, A_eff, sa, X)
    /\ UNCHANGED <<config, A, R, Diag, B, C, D>>

\* ImplicitModelLoRA.forward
ForwardLoRA(U, X0) ==
    /\ cls = "ImplicitModelLoRA"
    /\ call.op = "idle"
    /\ LET sa == ShapeAdapter(U, X0, NHidden, self_p, self_bias)
       IN  IF ~sa.ok
           THEN call' = Asserted(U, X0)
           ELSE LET L_projected == project_onto_Linf_ball(L, v_LoRA)
                    RT_projected == project_onto_Linf_ball(Tensor_transpose(R), v_LoRA)
                    rec == [Started(U, X0) EXCEPT
                               !.L_projected = L_projected,
                               !.RT_projected = RT_projected]
                    A_eff == MatMul(L_projected, RT_projected)
                IN  \E X \in ImplicitFunction_apply(A_eff, B, sa.X0, sa.U) :
                        call' = Solved(rec, A_eff, sa, X)
    /\ UNCHANGED <<config, params>>

\* self.Diag + 1e-10 in the parameters' type, float32: for |Diag| > kappa the
\* sum rounds to Diag itself (1e-10 is far below half a unit in the last
\* place of any float32 of magnitude above 0.95).
AddEps(M) == M

\* kappa * self.Diag/(self.Diag + 1e-10), the value line 216 computes
rescale(Dg) ==
    [i \in 1..Rows(Dg) |-> [j \in 1..Cols(Dg) |->
        RMul(kappa, RDiv(Dg[i][j], AddEps(Dg)[i][j]))]]

\* self.Diag = <value>: self.Diag is a registered nn.Parameter and the value
\* is a plain tensor (arithmetic on a Parameter yields a Tensor), so
\* nn.Module.__setattr__ raises TypeError and self.Diag keeps its value.
Module_setattr(old, value) == [raised |-> "TypeError", stored |-> old]

\* The diag=False branch of ImplicitModelLoRA2.forward
ScalarDiagStep(Dg) ==
    IF RLt(kappa, RAbs(Dg[1][1]))
    THEN LET value == rescale(Dg)
             set == Module_setattr(Dg, value)
         IN  [raised |-> set.raised, rescaled |-> value, stored |-> set.stored,
              Diag_projected |-> NoVal]
    ELSE [raised |-> "none", rescaled |-> NoVal, stored |-> Dg,
          Diag_projected |-> ScalarMul(Dg[1][1], eye(NHidden, NHidden))]

\* ImplicitModelLoRA2.forward
ForwardLoRA2(U, X0) ==
    /\ cls = "ImplicitModelLoRA2"
    /\ call.op = "idle"
    /\ LET sa == ShapeAdapter(U, X0, NHidden, self_p, self_bias)
           step == ScalarDiagStep(Diag)
       IN  IF ~sa.ok
           THEN call' = Asserted(U, X0) /\ Diag' = Diag
           ELSE IF ~self_diag /\ step.raised # "none"
           THEN /\ call' = [Started(U, X0) EXCEPT !.outcome = step.raised,
                                                  !.rescaled = step.rescaled]
                /\ Diag' = step.stored
           ELSE LET Diag_projected ==
                        IF self_diag
                        THEN project_onto_Linf_ball(diag(Diag), kapp_diag)
                        ELSE step.Diag_projected
                    L_projected == project_onto_Linf_ball(L, v_LoRA2)
                    RT_projected == project_onto_Linf_ball(Tensor_transpose(R), v_LoRA2)
                    rec == [Started(U, X0) EXCEPT
                               !.Diag_projected = Diag_projected,
                               !.L_projected = L_projected,
                               !.RT_projected = RT_projected]
                    A_eff == MatAdd(Diag_projected,
                                    MatMul(L_projected, RT_projected))
                IN  /\ Diag' = (IF self_diag THEN Diag ELSE step.stored)
                    /\ \E X \in ImplicitFunction_apply(A_eff, B, sa.X0, sa.U) :
                           call' = Solved(rec, A_eff, sa, X)
    /\ UNCHANGED <<config, A, L, R, B, C, D>>

\* forward has returned (or raised): U', X0', A_eff, X and Y are dropped
Return ==
    /\ call.op = "forward"
    /\ call' = Idle
    /\ UNCHANGED <<config, params>>

\* The external optimizer between two calls: one parameter gets new values of
\* the same shape.
OptimizerStep ==
    /\ call.op = "idle"
    /\ \/ cls = "ImplicitModel" /\ A' \in DenseVals
          /\ UNCHANGED <<L, R, Diag, B, C, D>>
       \/ cls # "ImplicitModel" /\ L' \in FactorVals
          /\ UNCHANGED <<A, R, Diag, B, C, D>>
       \/ cls # "ImplicitModel" /\ R' \in FactorVals
          /\ UNCHANGED <<A, L, Diag, B, C, D>>
       \/ cls = "ImplicitModelLoRA2"
          /\ Diag' \in (IF self_diag THEN VectorDiagVals ELSE ScalarDiagVals)
          /\ UNCHANGED <<A, L, R, B, C, D>>
       \/ \E w \in WeightMags :
              /\ B' = Gen(NHidden, self_p, w, "flat")
              /\ C' = Gen(QOut, NHidden, w, "skew")
              /\ D' = Gen(QOut, self_p, w, "flat")
              /\ UNCHANGED <<A, L, R, Diag>>
    /\ UNCHANGED <<config, call>>

Next ==
    \/ \E U \in UInputs, X0 \in X0Inputs : ForwardDense(U, X0)
    \/ \E U \in UInputs, X0 \in X0Inputs : ForwardLoRA(U, X0)
    \/ \E U \in UInputs, X0 \in X0Inputs : ForwardLoRA2(U, X0)
    \/ Return
    \/ OptimizerStep

Spec == Init /\ [][Next]_vars

\* ------------------------------------------------------------------------
\* project_onto_Linf_ball called on its own: the arguments are drawn in the
\* initial state, the method is applied, and applied again to its result.
\* ------------------------------------------------------------------------
ProjMags == {<<0, 1>>, <<1, 4>>, <<1, 2>>, <<97, 100>>, <<2, 1>>, <<-3, 1>>}
ProjBudgets == {<<9, 20>>, <<1, 2>>, <<97, 100>>, <<2, 1>>}
ProjInputs ==
    {Gen(r, c, a, pt) : r \in {Rank, NHidden}, c \in {Rank, NHidden},
                        a \in ProjMags, pt \in Pats}

InitProj ==
    /\ cls \in {"ImplicitModelLoRA", "ImplicitModelLoRA2"}
    /\ self_diag = FALSE
    /\ self_bias = FALSE
    /\ self_p = PIn
    /\ A = NoVal
    /\ L = Gen(NHidden, Rank, Small, "flat")
    /\ R = Gen(NHidden, Rank, Small, "flat")
    /\ Diag = (IF cls = "ImplicitModelLoRA2" THEN << <<RZero>> >> ELSE NoVal)
    /\ B = Gen(NHidden, self_p, <<1, 2>>, "flat")
    /\ C = Gen(QOut, NHidden, <<1, 2>>, "flat")
    /\ D = Gen(QOut, self_p, <<1, 2>>, "flat")
    /\ \E M \in ProjInputs, v \in ProjBudgets :
           call = [Idle EXCEPT !.op = "project_args", !.projA = M, !.projv = v]

ProjectCall ==
    /\ call.op = "project_args"
    /\ call' = [call EXCEPT !.op = "project",
                   !.projOut = project_onto_Linf_ball(call.projA, call.projv)]
    /\ UNCHANGED <<config, params>>

ProjectAgain ==
    /\ call.op = "project"
    /\ call' = [call EXCEPT !.op = "project_again",
                   !.projAgain = project_onto_Linf_ball(call.projOut, call.projv)]
    /\ UNCHANGED <<config, params>>

NextProj == ProjectCall \/ ProjectAgain

SpecProj == InitProj /\ [][NextProj]_vars

\* ------------------------------------------------------------------------
\* Properties
\* ------------------------------------------------------------------------
Projected == call.op \in {"project", "project_again"}
NormIn == matrix_norm_inf(call.projA)
NormOut == matrix_norm_inf(call.projOut)

ForwardDone == call.op = "forward"
ForwardOK == call.op = "forward" /\ call.outcome = "ok"
A_eff_passed == call.solve[1]
RSquare(x) == RMul(x, x)

\* The scalar Diag of the diag=False mode exceeded kappa when forward was
\* entered, and the call got past the shape assertions.
ScalarDiagAboveKappa ==
    /\ ForwardDone
    /\ cls = "ImplicitModelLoRA2"
    /\ ~self_diag
    /\ call.outcome # "AssertionError"
    /\ RLt(kappa, RAbs(call.DiagEntry[1][1]))

\* C1 as stated: the projected matrix has infinity-norm <= v, the norm equals
\* v if and only if the norm of M was strictly greater than v, and M is
\* returned as it is when its norm is <= v.
C1_AsStated ==
    Projected =>
        /\ RLe(NormOut, call.projv)
        /\ (NormOut = call.projv) <=> RLt(call.projv, NormIn)
        /\ RLe(NormIn, call.projv) => call.projOut = call.projA

\* C1 amended: the projected matrix has infinity-norm <= v, the norm equals v
\* if and only if the norm of M was greater than or equal to v, and M is
\* returned as it is when its norm is <= v.
C1_ProjectionIntoBall ==
    Projected =>
        /\ RLe(NormOut, call.projv)
        /\ (NormOut = call.projv) <=> RLe(call.projv, NormIn)
        /\ RLe(NormIn, call.projv) => call.projOut = call.projA

C1_Witness ==
    /\ Projected
    /\ RLt(call.projv, NormIn)
    /\ call.projOut # call.projA
    /\ NormOut = call.projv

\* C2: in both modes of ImplicitModelLoRA2 the matrix forward hands to the
\* solver has infinity-norm at most kappa = 0.95.
C2_AeffWithinKappa ==
    (ForwardOK /\ cls = "ImplicitModelLoRA2") =>
        RLe(matrix_norm_inf(A_eff_passed), kappa)

\* C3: with diag=True, after a forward call the projected diagonal has
\* infinity-norm <= 0.45 and each projected low-rank factor has infinity-norm
\* <= sqrt(0.95 - 0.45), that is, its square is <= 1/2.
C3_BudgetSplit ==
    (ForwardOK /\ cls = "ImplicitModelLoRA2" /\ self_diag) =>
        /\ RLe(matrix_norm_inf(call.Diag_projected), <<9, 20>>)
        /\ RLe(RSquare(matrix_norm_inf(call.L_projected)), <<1, 2>>)
        /\ RLe(RSquare(matrix_norm_inf(call.RT_projected)), <<1, 2>>)

C3_Witness ==
    /\ ForwardOK /\ cls = "ImplicitModelLoRA2" /\ self_diag
    /\ call.Diag_projected # diag(Diag)
    /\ call.L_projected # L
    /\ call.RT_projected # Tensor_transpose(R)

\* C4: in ImplicitModelLoRA the product of the projected factors that forward
\* passes to the solver has infinity-norm at most 0.97^2, which is below 1.
C4_ProductWithinSquare ==
    (ForwardOK /\ cls = "ImplicitModelLoRA") =>
        /\ RLe(matrix_norm_inf(A_eff_passed), RSquare(<<97, 100>>))
        /\ RLt(matrix_norm_inf(A_eff_passed), ROne)

C4_Witness ==
    /\ ForwardOK /\ cls = "ImplicitModelLoRA"
    /\ call.L_projected # L
    /\ call.RT_projected # Tensor_transpose(R)
    /\ matrix_norm_inf(A_eff_passed) = RSquare(<<97, 100>>)

\* C5: a forward call entered with a scalar Diag of absolute value above kappa
\* leaves the stored Diag with absolute value <= 0.95, and a call entered
\* with |Diag| <= 0.95 leaves the stored Diag as it was.
C5_ScalarDiagRescaled ==
    /\ ScalarDiagAboveKappa => RLe(RAbs(Diag[1][1]), kappa)
    /\ (ForwardDone /\ cls = "ImplicitModelLoRA2" /\ ~self_diag
          /\ RLe(RAbs(call.DiagEntry[1][1]), kappa)) => Diag = call.DiagEntry

\* C6: no step of a forward call changes A, L, R, B, C or D; Diag changes
\* only in ImplicitModelLoRA2 with diag=False when its absolute value was
\* above kappa, and stays of shape (1,1).
C6_ForwardFrame ==
    [][(call.op = "forward" \/ call'.op = "forward") =>
          /\ UNCHANGED <<A, L, R, B, C, D>>
          /\ Diag' # Diag =>
                /\ cls = "ImplicitModelLoRA2"
                /\ ~self_diag
                /\ RLt(kappa, RAbs(Diag[1][1]))
                /\ Shape(Diag') = <<1, 1>>]_vars

C6_Witness ==
    /\ ForwardOK
    /\ cls = "ImplicitModelLoRA"
    /\ call.L_projected # L
    /\ call.RT_projected # Tensor_transpose(R)

\* The width of U's features after flattening, and the mismatch C7 is about,
\* read off the arguments as the caller gave them.
FeatureWidth(U) ==
    IF U.rank = 3 THEN Len(U.data[1]) * Len(U.data[1][1]) ELSE Len(U.data[1])
BatchSize(U) == Len(U.data)
Mismatch(U, X0) ==
    \/ FeatureWidth(U) + (IF self_bias THEN 1 ELSE 0) # self_p
    \/ X0 # NoVal /\ <<Len(X0), Len(X0[1])>> # <<BatchSize(U), NHidden>>

\* C7: a forward call whose U or X0 does not fit ends in the assertion error,
\* and only such a call does; the solver is then not invoked, the Diag step
\* is not run and no parameter changes.
C7_MismatchDetected ==
    [][(call.op = "idle" /\ call'.op = "forward") =>
          /\ Mismatch(call'.U, call'.X0) <=> call'.outcome = "AssertionError"
          /\ call'.outcome = "AssertionError" =>
                /\ call'.solve = NoVal
                /\ call'.rescaled = NoVal
                /\ call'.Diag_projected = NoVal
                /\ call'.Y = NoVal
                /\ UNCHANGED params]_vars

C7_Witness ==
    /\ ForwardDone
    /\ call.outcome = "AssertionError"
    /\ FeatureWidth(call.U) + (IF self_bias THEN 1 ELSE 0) = self_p
    /\ call.X0 # NoVal

\* U of shape (m, t, w) flattened to (m, t*w), entry by entry
PreFlattened(U) ==
    LET w == Len(U.data[1][1])
    IN  [rank |-> 2,
         data |-> [i \in 1..BatchSize(U) |-> [j \in 1..FeatureWidth(U) |->
                      U.data[i][((j - 1) \div w) + 1][((j - 1) % w) + 1]]]]

\* C8: forward(U) with U of the configured width and no X0 returns a result
\* of shape (m, q); a 3-dimensional U is accepted and gives the solver the
\* arguments the pre-flattened U gives it.
C8_ShapeContract ==
    (ForwardDone /\ ~Mismatch(call.U, call.X0)) =>
        /\ call.outcome = "ok"
        /\ Shape(call.Y) = <<BatchSize(call.U), QOut>>
        /\ call.U.rank = 3 =>
              call.solve[4] =
                  ShapeAdapter(PreFlattened(call.U), call.X0,
                               NHidden, self_p, self_bias).U

\* C9: projecting the projected matrix again with the same v returns it.
C9_Idempotent ==
    call.op = "project_again" => call.projAgain = call.projOut

C9_Witness ==
    /\ call.op = "project_again"
    /\ call.projOut # call.projA
    /\ call.projAgain = call.projOut

\* C10: for a scalar Diag of absolute value above kappa, negative or
\* positive, the rescaled value and the Diag stored after the call have the
\* sign of the Diag stored before the call.
C10_RescaleKeepsSign ==
    ScalarDiagAboveKappa =>
        /\ call.rescaled # NoVal
        /\ RSign(call.rescaled[1][1]) = RSign(call.DiagEntry[1][1])
        /\ RSign(Diag[1][1]) = RSign(call.DiagEntry[1][1])

====
